---- MODULE Spec2Model ----
(***************************************************************************)
(* joker.relational: SQLInterface, a wrapper around a database engine      *)
(* (connection pool) and a MetaData catalogue.                             *)
(*                                                                         *)
(* The model follows src/joker/relational/interface.py.  The older copy,   *)
(* src/joker/relational/interfaces.py, has the same execute, exists,       *)
(* create_database, refresh_materialized_views and                         *)
(* wait_until_server_ready; its create_all_tables differs and is modelled  *)
(* separately (interfaces_create_all_tables).                              *)
(*                                                                         *)
(* Each process p owns one handle.  An operation is a sequence of steps    *)
(* driven by pc[p]; self.execute is the sub-machine                        *)
(*   ex_connect -> ex_stmt -> ex_done                                      *)
(* whose result res[p] the calling operation consumes.                     *)
(*                                                                         *)
(* The database server and the connection pool are external: the server   *)
(* is a set of databases and a reachability flag, the pool a FIFO queue    *)
(* of idle connections, each tagged with the process id that opened it.    *)
(* Time is in whole seconds; a readiness query takes 0..MaxLatency.        *)
(***************************************************************************)
EXTENDS Integers, Sequences, FiniteSets, TLC

VARIABLES
    up,        \* server: TRUE when it accepts connections
    dbs,       \* server: names in pg_database
    ncreate,   \* server: CREATE DATABASE statements received, per name
    nmade,     \* server: databases actually created, per name
    metadata,  \* self.metadata.tables.values(), per handle
    hpid,      \* self._pid
    curpid,    \* os.getpid()
    pool,      \* self.engine: idle pooled connections (pid that opened each)
    held,      \* self.engine: connections checked out (innermost last)
    pc,        \* position of the process inside the current operation
    opn,       \* name of the current (or last finished) operation
    loc,       \* local variables and arguments of that operation
    res,       \* result of the last self.execute: [exc, scalar]
    out,       \* how the last operation ended: [raised, retBool, retList]
    acq,       \* history: the last connection acquisition
    synced     \* history: just_after_fork was called since the last fork

vars == <<up, dbs, ncreate, nmade, metadata, hpid, curpid, pool, held, pc, opn, loc,
          res, out, acq, synced>>

server == <<up, dbs, ncreate, nmade>>
pids == <<hpid, curpid, synced>>

----------------------------------------------------------------------------
(* Bounds of the model *)

MaxTimeout == 6
MaxPeriod == 3
MaxLatency == 1
MaxViews == 2
MaxPid == 4
MaxCreateStmts == 2

Procs == {1, 2}
DBNames == {"x", "y"}
ViewNames == {"v1", "v2", "nx"}
\* materialized views the server has; refreshing any other name fails
ServerMViews == {"v1", "v2"}
Paths == {"ok.sql", "missing.sql"}
Statements == {"ok", "bad"}

----------------------------------------------------------------------------
(* Python values *)

NoExc == "none"
OperationalError == "OperationalError"
ProgrammingError == "ProgrammingError"
FileNotFoundError == "FileNotFoundError"
TypeError == "TypeError"

\* str objects are character sequences; Table objects are not str
PyStr(s) == [type |-> "str", v |-> s]
Table(name, schema) == [type |-> "Table", name |-> name, schema |-> schema]

s_orders == <<"o", "r", "d", "e", "r", "s">>
s_orders_view == <<"o", "r", "d", "e", "r", "s", "_", "v", "i", "e", "w">>
s_view == <<"v", "i", "e", "w">>
s_users == <<"u", "s", "e", "r", "s">>
p_star_view == <<"*", "_", "v", "i", "e", "w">>
p_star == <<"*">>
p_q == <<"o", "r", "d", "e", "r", "?">>
p_empty == <<>>

\* tbl.schema is None for a table without a schema
None == "None"
AllTables == {Table(s_orders, None), Table(s_orders_view, "app"),
              Table(s_view, None), Table(s_users, "app")}
IgnorePatterns == {p_star_view, p_star, p_q, p_empty}

----------------------------------------------------------------------------
(* Pure functions *)

\* (variant: rounds down, dropping the last, partial period)
RangeLenFloor(start, stop, step) ==
    IF step > 0
    THEN IF stop > start THEN (stop - start) \div step ELSE 0
    ELSE IF start > stop THEN (start - stop) \div (-step) ELSE 0

\* len(range(start, stop, step)) for step # 0
RangeLen(start, stop, step) ==
    IF step > 0
    THEN IF stop > start THEN (stop - start + step - 1) \div step ELSE 0
    ELSE IF start > stop THEN (start - stop - step - 1) \div (-step) ELSE 0

\* the regular expression fnmatch.translate builds from a pattern of
\* literals, '*' and '?', matched against the whole name
RECURSIVE GlobMatch(_, _)
GlobMatch(s, p) ==
    IF p = <<>> THEN s = <<>>
    ELSE IF Head(p) = "*"
         THEN GlobMatch(s, Tail(p)) \/ (s # <<>> /\ GlobMatch(Tail(s), p))
         ELSE /\ s # <<>>
              /\ (Head(p) = "?" \/ Head(p) = Head(s))
              /\ GlobMatch(Tail(s), Tail(p))

\* fnmatch.fnmatchcase(name, pat): the compiled pattern's match() accepts
\* only str (or bytes) and raises TypeError for any other object
fnmatchcase(name, pat) ==
    IF name.type # "str"
    THEN [exc |-> TypeError, val |-> FALSE]
    ELSE [exc |-> NoExc, val |-> GlobMatch(name.v, pat)]

\* str.endswith
EndsWith(s, suf) ==
    /\ Len(s) >= Len(suf)
    /\ SubSeq(s, Len(s) - Len(suf) + 1, Len(s)) = suf

\* interface.py: the table list create_all_tables hands to
\* metadata.create_all.  The comprehension tests the Table object t itself.
create_all_tables_filter(tables, ignore) ==
    IF ignore = <<>>
    THEN [exc |-> NoExc, tables |-> tables]
    ELSE IF \E t \in tables : fnmatchcase(t, ignore).exc # NoExc
         THEN [exc |-> TypeError, tables |-> {}]
         ELSE [exc |-> NoExc,
               tables |-> {t \in tables : ~fnmatchcase(t, ignore).val}]

\* interfaces.py: the table list its create_all_tables hands over
interfaces_create_all_tables_filter(tables) ==
    {t \in tables : ~EndsWith(t.name, <<"_">> \o s_view)}

get_all_schemas(tables) ==
    {"serial"} \cup {t.schema : t \in {u \in tables : u.schema # None}}

----------------------------------------------------------------------------
(* The connection pool (self.engine) *)

\* engine.connect(): an idle pooled connection if there is one, else a new
\* connection opened by the calling process, which needs a reachable server
Connect(pl, hl, u, cur) ==
    IF pl # <<>>
    THEN [ok |-> TRUE, pool |-> Tail(pl), held |-> Append(hl, Head(pl)),
          conn |-> Head(pl)]
    ELSE IF u
         THEN [ok |-> TRUE, pool |-> pl, held |-> Append(hl, cur), conn |-> cur]
         ELSE [ok |-> FALSE, pool |-> pl, held |-> hl, conn |-> 0]

\* (variant: the connection is released on the normal path only)
ReleaseUnlessRaised(pl, hl, exc) ==
    IF exc # NoExc
    THEN [pool |-> pl, held |-> hl]
    ELSE [pool |-> Append(pl, hl[Len(hl)]),
          held |-> SubSeq(hl, 1, Len(hl) - 1)]

\* leaving `with self.engine.connect()`: the innermost connection goes back
\* to the pool; one that failed with a connection-level error is invalidated
\* and dropped instead
Release(pl, hl, exc) ==
    [pool |-> IF exc = OperationalError THEN pl ELSE Append(pl, hl[Len(hl)]),
     held |-> SubSeq(hl, 1, Len(hl) - 1)]

----------------------------------------------------------------------------
(* The database server *)

NoStmt == [kind |-> "none", name |-> ""]
Stmt(kind, name) == [kind |-> kind, name |-> name]

\* what the server answers to a statement: the exception it raises, the
\* scalar() of the result (0 for None) and the databases afterwards
ServerExec(s, u, d) ==
    IF ~u THEN [exc |-> OperationalError, scalar |-> 0, dbs |-> d]
    ELSE CASE s.kind = "CREATE DATABASE" ->
                IF s.name \in d
                THEN [exc |-> ProgrammingError, scalar |-> 0, dbs |-> d]
                ELSE [exc |-> NoExc, scalar |-> 0, dbs |-> d \cup {s.name}]
           [] s.kind = "SELECT pg_database" ->
                [exc |-> NoExc, scalar |-> IF s.name \in d THEN 1 ELSE 0,
                 dbs |-> d]
           [] s.kind = "SELECT 1" ->
                [exc |-> NoExc, scalar |-> 1, dbs |-> d]
           [] s.kind \in {"REFRESH", "REFRESH CONCURRENTLY"} ->
                IF s.name \in ServerMViews
                THEN [exc |-> NoExc, scalar |-> 0, dbs |-> d]
                ELSE [exc |-> ProgrammingError, scalar |-> 0, dbs |-> d]
           [] s.kind = "SQL" ->
                IF s.name = "bad"
                THEN [exc |-> ProgrammingError, scalar |-> 0, dbs |-> d]
                ELSE [exc |-> NoExc, scalar |-> 1, dbs |-> d]
           [] OTHER -> [exc |-> NoExc, scalar |-> 0, dbs |-> d]

----------------------------------------------------------------------------
(* State of one handle *)

DefaultLoc ==
    [stmt |-> NoStmt, phase |-> "", name |-> "",
     timeout |-> 0, period |-> 0, n |-> 0, i |-> 0, elapsed |-> 0,
     slept |-> 0, ready |-> FALSE,
     mviews |-> <<>>, conc |-> TRUE, seen |-> <<>>,
     path |-> "", ignore |-> <<>>, passed |-> {}, emitted |-> FALSE,
     todo |-> {}]

NoRes == [exc |-> NoExc, scalar |-> 0]
NoOut == [raised |-> NoExc, retBool |-> FALSE, retList |-> <<>>]
NoAcq == [n |-> 0, rec |-> 0, cur |-> 0, conn |-> 0, after |-> TRUE]

\* the operation starts: its arguments and locals replace the last one's
Begin(p, name, l, at) ==
    /\ pc[p] = "idle"
    /\ opn' = [opn EXCEPT ![p] = name]
    /\ loc' = [loc EXCEPT ![p] = l]
    /\ out' = [out EXCEPT ![p] = NoOut]
    /\ res' = [res EXCEPT ![p] = NoRes]
    /\ pc' = [pc EXCEPT ![p] = at]

\* the operation ends, by return (raised = NoExc) or by an exception
Finish(p, raised, rb, rl) ==
    /\ pc' = [pc EXCEPT ![p] = "idle"]
    /\ out' = [out EXCEPT ![p] =
                  [raised |-> raised, retBool |-> rb, retList |-> rl]]

Goto(p, at) == pc' = [pc EXCEPT ![p] = at] /\ out' = out

\* the pool after engine.connect() answered c
Acquire(p, c) ==
    /\ pool' = [pool EXCEPT ![p] = c.pool]
    /\ held' = [held EXCEPT ![p] = c.held]
    /\ acq' = IF c.ok
              THEN [acq EXCEPT ![p] = [n |-> 1, rec |-> hpid[p],
                                        cur |-> curpid[p], conn |-> c.conn,
                                        after |-> synced[p]]]
              ELSE acq

----------------------------------------------------------------------------
(* execute(statement) *)

execute(p, s) ==
    /\ Begin(p, "execute", [DefaultLoc EXCEPT !.stmt = Stmt("SQL", s)],
             "ex_connect")
    /\ UNCHANGED <<server, metadata, pids, pool, held, acq>>

\* with self.engine.connect() as conn
execute_connect(p) ==
    /\ pc[p] = "ex_connect"
    /\ LET c == Connect(pool[p], held[p], up, curpid[p]) IN
        /\ Acquire(p, c)
        /\ IF c.ok
           THEN /\ Goto(p, "ex_stmt")
                /\ res' = res
           ELSE /\ Goto(p, "ex_done")
                /\ res' = [res EXCEPT ![p] =
                              [exc |-> OperationalError, scalar |-> 0]]
    /\ UNCHANGED <<server, metadata, pids, opn, loc>>

\* return conn.execute(statement), and the with block releases conn
execute_stmt(p) ==
    /\ pc[p] = "ex_stmt"
    /\ LET r == ServerExec(loc[p].stmt, up, dbs)
           rel == Release(pool[p], held[p], r.exc)
       IN  /\ dbs' = r.dbs
           /\ ncreate' = IF up /\ loc[p].stmt.kind = "CREATE DATABASE"
                         THEN [ncreate EXCEPT ![loc[p].stmt.name] = @ + 1]
                         ELSE ncreate
           /\ nmade' = IF r.dbs # dbs
                       THEN [nmade EXCEPT ![loc[p].stmt.name] = @ + 1]
                       ELSE nmade
           /\ res' = [res EXCEPT ![p] = [exc |-> r.exc, scalar |-> r.scalar]]
           /\ pool' = [pool EXCEPT ![p] = rel.pool]
           /\ held' = [held EXCEPT ![p] = rel.held]
    /\ Goto(p, "ex_done")
    /\ UNCHANGED <<up, metadata, pids, opn, loc, acq>>

\* a top-level execute hands the result, or the exception, to its caller
execute_return(p) ==
    /\ pc[p] = "ex_done"
    /\ opn[p] = "execute"
    /\ Finish(p, res[p].exc, FALSE, <<>>)
    /\ UNCHANGED <<server, metadata, pids, pool, held, opn, loc, res, acq>>

----------------------------------------------------------------------------
(* wait_until_server_ready(timeout, period) *)

\* (variant: gives up at the first failed attempt instead of sleeping)
wait_on_attempt_gives_up(exc) ==
    IF exc = NoExc \/ exc = OperationalError THEN "return" ELSE "raise"

\* what the loop body does with the outcome of self.execute('SELECT 1;')
wait_on_attempt(exc) ==
    IF exc = NoExc THEN "return"
    ELSE IF exc = OperationalError THEN "sleep"
    ELSE "raise"

\* remaining := timeout + start - time.time()
wait_remaining(timeout, elapsed) == timeout - elapsed

\* start = time.time(); for _ in range(0, timeout, period): first attempt
wait_until_server_ready(p, timeout, period) ==
    /\ LET n == RangeLen(0, timeout, period)
           l == [DefaultLoc EXCEPT !.timeout = timeout, !.period = period,
                                   !.n = n, !.i = IF n > 0 THEN 1 ELSE 0,
                                   !.stmt = Stmt("SELECT 1", "")]
       IN  Begin(p, "wait_until_server_ready", l,
                 IF n > 0 THEN "ex_connect" ELSE "wait_tail")
    /\ UNCHANGED <<server, metadata, pids, pool, held, acq>>

\* one pass of the loop body after self.execute answered; the query itself
\* took d seconds
wait_attempt(p, d) ==
    /\ pc[p] = "ex_done"
    /\ opn[p] = "wait_until_server_ready"
    /\ LET l == loc[p]
           todo == wait_on_attempt(res[p].exc)
       IN  CASE todo = "return" ->
                  /\ loc' = [loc EXCEPT ![p].elapsed = @ + d,
                                        ![p].ready = (res[p].exc = NoExc)]
                  /\ Finish(p, NoExc, FALSE, <<>>)
             [] todo = "sleep" ->
                  /\ loc' = [loc EXCEPT
                        ![p].elapsed = @ + d + l.period,
                        ![p].slept = @ + l.period,
                        ![p].i = IF l.i < l.n THEN @ + 1 ELSE @]
                  /\ Goto(p, IF l.i < l.n THEN "ex_connect" ELSE "wait_tail")
             [] OTHER ->
                  /\ loc' = [loc EXCEPT ![p].elapsed = @ + d]
                  /\ Finish(p, res[p].exc, FALSE, <<>>)
    /\ UNCHANGED <<server, metadata, pids, pool, held, opn, res, acq>>

\* after the loop: sleep what is left of the timeout, if anything
wait_tail(p) ==
    /\ pc[p] = "wait_tail"
    /\ LET remaining == wait_remaining(loc[p].timeout, loc[p].elapsed) IN
        loc' = IF remaining > 0
               THEN [loc EXCEPT ![p].elapsed = @ + remaining,
                                ![p].slept = @ + remaining]
               ELSE loc
    /\ Finish(p, NoExc, FALSE, <<>>)
    /\ UNCHANGED <<server, metadata, pids, pool, held, opn, res, acq>>

----------------------------------------------------------------------------
(* exists(database) and create_database(name) *)

\* (variant: no except clause)
exists_result_uncaught(r) ==
    IF r.exc # NoExc THEN [raised |-> r.exc, ret |-> FALSE]
    ELSE [raised |-> NoExc, ret |-> r.scalar # 0]

\* try: return bool(self.execute(sql).scalar())
\* except sqlalchemy.exc.OperationalError: return False
exists_result(r) ==
    IF r.exc = OperationalError THEN [raised |-> NoExc, ret |-> FALSE]
    ELSE IF r.exc # NoExc THEN [raised |-> r.exc, ret |-> FALSE]
    ELSE [raised |-> NoExc, ret |-> r.scalar # 0]

exists(p, database) ==
    /\ Begin(p, "exists",
             [DefaultLoc EXCEPT !.name = database,
                                !.stmt = Stmt("SELECT pg_database", database)],
             "ex_connect")
    /\ UNCHANGED <<server, metadata, pids, pool, held, acq>>

exists_return(p) ==
    /\ pc[p] = "ex_done"
    /\ opn[p] = "exists"
    /\ LET e == exists_result(res[p]) IN Finish(p, e.raised, e.ret, <<>>)
    /\ UNCHANGED <<server, metadata, pids, pool, held, opn, loc, res, acq>>

\* (variant: creates without looking at the answer of self.exists)
create_database_unchecked(e) ==
    IF e.raised # NoExc THEN "raise" ELSE "create"

\* what create_database does once self.exists(name) answered e
create_database_on_exists(e) ==
    IF e.raised # NoExc THEN "raise"
    ELSE IF e.ret THEN "skip"
    ELSE "create"

\* if self.exists(name)
create_database(p, name) ==
    /\ ncreate[name] < MaxCreateStmts
    /\ Begin(p, "create_database",
             [DefaultLoc EXCEPT !.name = name, !.phase = "exists",
                                !.stmt = Stmt("SELECT pg_database", name)],
             "ex_connect")
    /\ UNCHANGED <<server, metadata, pids, pool, held, acq>>

\* 'database exists already, creation skipped', or go on to create it
create_database_check(p) ==
    /\ pc[p] = "ex_done"
    /\ opn[p] = "create_database"
    /\ loc[p].phase = "exists"
    /\ LET e == exists_result(res[p])
           todo == create_database_on_exists(e)
       IN  CASE todo = "raise" -> Finish(p, e.raised, FALSE, <<>>) /\ loc' = loc
             [] todo = "skip" -> Finish(p, NoExc, FALSE, <<>>) /\ loc' = loc
             [] OTHER -> /\ Goto(p, "cd_connect")
                         /\ loc' = [loc EXCEPT ![p].phase = "absent"]
    /\ UNCHANGED <<server, metadata, pids, pool, held, opn, res, acq>>

\* with self.engine.connect(): ... self.execute(sql)
create_database_connect(p) ==
    /\ pc[p] = "cd_connect"
    /\ LET c == Connect(pool[p], held[p], up, curpid[p]) IN
        /\ Acquire(p, c)
        /\ IF c.ok
           THEN /\ Goto(p, "ex_connect")
                /\ loc' = [loc EXCEPT
                      ![p].phase = "create",
                      ![p].stmt = Stmt("CREATE DATABASE", loc[p].name)]
           ELSE /\ Finish(p, OperationalError, FALSE, <<>>)
                /\ loc' = loc
        /\ res' = IF c.ok THEN res
                  ELSE [res EXCEPT ![p] =
                           [exc |-> OperationalError, scalar |-> 0]]
    /\ UNCHANGED <<server, metadata, pids, opn>>

\* (variant: a failed creation statement is swallowed)
create_database_result_swallowed(exc) ==
    IF exc = ProgrammingError THEN NoExc ELSE exc

\* self.execute(sql) sits in no try block: what it raises, the call raises
create_database_result(exc) == exc

\* the outer with block ends: its connection goes back, the result of the
\* creation statement is the result of the call
create_database_return(p) ==
    /\ pc[p] = "ex_done"
    /\ opn[p] = "create_database"
    /\ loc[p].phase = "create"
    /\ LET rel == Release(pool[p], held[p], NoExc) IN
        /\ pool' = [pool EXCEPT ![p] = rel.pool]
        /\ held' = [held EXCEPT ![p] = rel.held]
    /\ Finish(p, create_database_result(res[p].exc), FALSE, <<>>)
    /\ UNCHANGED <<server, metadata, pids, opn, loc, res, acq>>

----------------------------------------------------------------------------
(* refresh_materialized_views(mviews, concurrently) *)

refresh_stmt(v, concurrently) ==
    Stmt(IF concurrently THEN "REFRESH CONCURRENTLY" ELSE "REFRESH", v)

\* (variant: a failed refresh is skipped and the loop goes on)
refresh_on_result_goes_on(exc, i, len) ==
    IF i < len THEN "next" ELSE "return"

\* what the loop does once self.execute for a view answered
refresh_on_result(exc, i, len) ==
    IF exc # NoExc THEN "raise"
    ELSE IF i < len THEN "next"
    ELSE "return"

\* for v in mviews: the first view, or return mviews when there is none
refresh_materialized_views(p, mviews, concurrently) ==
    /\ IF mviews = <<>>
       THEN /\ opn' = [opn EXCEPT ![p] = "refresh_materialized_views"]
            /\ loc' = [loc EXCEPT ![p] = [DefaultLoc EXCEPT
                                             !.conc = concurrently]]
            /\ res' = [res EXCEPT ![p] = NoRes]
            /\ pc[p] = "idle"
            /\ Finish(p, NoExc, FALSE, mviews)
       ELSE Begin(p, "refresh_materialized_views",
                  [DefaultLoc EXCEPT
                      !.mviews = mviews, !.conc = concurrently, !.i = 1,
                      !.seen = <<mviews[1]>>,
                      !.stmt = refresh_stmt(mviews[1], concurrently)],
                  "ex_connect")
    /\ UNCHANGED <<server, metadata, pids, pool, held, acq>>

\* 'mview refreshed', then the next view or return mviews
refresh_next(p) ==
    /\ pc[p] = "ex_done"
    /\ opn[p] = "refresh_materialized_views"
    /\ LET l == loc[p]
           todo == refresh_on_result(res[p].exc, l.i, Len(l.mviews))
       IN  CASE todo = "raise" ->
                  /\ Finish(p, res[p].exc, FALSE, <<>>)
                  /\ loc' = loc
             [] todo = "next" ->
                  /\ Goto(p, "ex_connect")
                  /\ loc' = [loc EXCEPT
                        ![p].i = @ + 1,
                        ![p].seen = Append(@, l.mviews[l.i + 1]),
                        ![p].stmt = refresh_stmt(l.mviews[l.i + 1], l.conc)]
             [] OTHER ->
                  /\ Finish(p, NoExc, FALSE, l.mviews)
                  /\ loc' = loc
    /\ UNCHANGED <<server, metadata, pids, pool, held, opn, res, acq>>

----------------------------------------------------------------------------
(* execute_script(path) *)

execute_script(p, path) ==
    /\ Begin(p, "execute_script", [DefaultLoc EXCEPT !.path = path],
             "script_connect")
    /\ UNCHANGED <<server, metadata, pids, pool, held, acq>>

\* with self.engine.connect() as conn
execute_script_connect(p) ==
    /\ pc[p] = "script_connect"
    /\ LET c == Connect(pool[p], held[p], up, curpid[p]) IN
        /\ Acquire(p, c)
        /\ IF c.ok
           THEN /\ Goto(p, "script_commit")
                /\ res' = res
           ELSE /\ Finish(p, OperationalError, FALSE, <<>>)
                /\ res' = [res EXCEPT ![p] =
                              [exc |-> OperationalError, scalar |-> 0]]
    /\ UNCHANGED <<server, metadata, pids, opn, loc>>

\* conn.execute('COMMIT;')
execute_script_commit(p) ==
    /\ pc[p] = "script_commit"
    /\ LET r == ServerExec(Stmt("COMMIT", ""), up, dbs)
           rel == Release(pool[p], held[p], r.exc)
       IN  /\ res' = [res EXCEPT ![p] = [exc |-> r.exc, scalar |-> 0]]
           /\ IF r.exc = NoExc
              THEN /\ Goto(p, "script_body")
                   /\ UNCHANGED <<pool, held>>
              ELSE /\ Finish(p, r.exc, FALSE, <<>>)
                   /\ pool' = [pool EXCEPT ![p] = rel.pool]
                   /\ held' = [held EXCEPT ![p] = rel.held]
    /\ UNCHANGED <<server, metadata, pids, opn, loc, acq>>

\* return conn.execute(open(path).read()), and the with block releases conn
execute_script_body(p) ==
    /\ pc[p] = "script_body"
    /\ LET r == IF loc[p].path = "missing.sql"
                THEN [exc |-> FileNotFoundError, scalar |-> 0, dbs |-> dbs]
                ELSE ServerExec(Stmt("SQL", "ok"), up, dbs)
           rel == Release(pool[p], held[p], r.exc)
       IN  /\ res' = [res EXCEPT ![p] = [exc |-> r.exc, scalar |-> 0]]
           /\ Finish(p, r.exc, FALSE, <<>>)
           /\ pool' = [pool EXCEPT ![p] = rel.pool]
           /\ held' = [held EXCEPT ![p] = rel.held]
    /\ UNCHANGED <<server, metadata, pids, opn, loc, acq>>

----------------------------------------------------------------------------
(* create_all_schemas() and create_all_tables(ignore) *)

\* self.engine.execute(...): a connection taken for the one statement and
\* released with it; pl, hl are the pool before, the result the pool after
EngineExecute(pl, hl, u, cur, s, d) ==
    LET c == Connect(pl, hl, u, cur) IN
    IF ~c.ok
    THEN [exc |-> OperationalError, conn |-> c, pool |-> pl, held |-> hl]
    ELSE LET r == ServerExec(s, u, d)
             rel == Release(c.pool, c.held, r.exc)
         IN  [exc |-> r.exc, conn |-> c, pool |-> rel.pool, held |-> rel.held]

\* schemas = self.get_all_schemas(); schemas.add('public')
create_all_schemas(p) ==
    /\ Begin(p, "create_all_schemas",
             [DefaultLoc EXCEPT
                 !.todo = get_all_schemas(metadata[p]) \cup {"public"}],
             "schemas")
    /\ UNCHANGED <<server, metadata, pids, pool, held, acq>>

\* for schema in schemas: CREATE SCHEMA IF NOT EXISTS, in any order
create_all_schemas_step(p, schema) ==
    /\ pc[p] = "schemas"
    /\ schema \in loc[p].todo
    /\ LET e == EngineExecute(pool[p], held[p], up, curpid[p],
                              Stmt("CREATE SCHEMA IF NOT EXISTS", schema), dbs)
       IN  /\ Acquire(p, [e.conn EXCEPT !.pool = e.pool, !.held = e.held])
           /\ res' = [res EXCEPT ![p] = [exc |-> e.exc, scalar |-> 0]]
           /\ IF e.exc # NoExc
              THEN Finish(p, e.exc, FALSE, <<>>) /\ loc' = loc
              ELSE /\ loc' = [loc EXCEPT ![p].todo = @ \ {schema}]
                   /\ IF loc[p].todo = {schema}
                      THEN Finish(p, NoExc, FALSE, <<>>)
                      ELSE Goto(p, "schemas")
    /\ UNCHANGED <<server, metadata, pids, opn>>

\* interface.py: tables = [t for t in tables if not fnmatchcase(t, ignore)]
create_all_tables(p, ignore) ==
    /\ pc[p] = "idle"
    /\ LET f == create_all_tables_filter(metadata[p], ignore) IN
        /\ opn' = [opn EXCEPT ![p] = "create_all_tables"]
        /\ loc' = [loc EXCEPT ![p] = [DefaultLoc EXCEPT !.ignore = ignore,
                                                       !.passed = f.tables]]
        /\ res' = [res EXCEPT ![p] = [exc |-> f.exc, scalar |-> 0]]
        /\ IF f.exc # NoExc
           THEN Finish(p, f.exc, FALSE, <<>>)
           ELSE /\ pc' = [pc EXCEPT ![p] = "tables_ddl"]
                /\ out' = [out EXCEPT ![p] = NoOut]
    /\ UNCHANGED <<server, metadata, pids, pool, held, acq>>

\* interfaces.py: tables = [t for t in tables if not t.name.endswith('_view')]
interfaces_create_all_tables(p) ==
    /\ Begin(p, "interfaces_create_all_tables",
             [DefaultLoc EXCEPT
                 !.passed = interfaces_create_all_tables_filter(metadata[p])],
             "tables_ddl")
    /\ UNCHANGED <<server, metadata, pids, pool, held, acq>>

\* self.metadata.create_all(self.engine, tables=tables)
create_all_tables_ddl(p) ==
    /\ pc[p] = "tables_ddl"
    /\ LET e == EngineExecute(pool[p], held[p], up, curpid[p],
                              Stmt("CREATE TABLE", ""), dbs)
       IN  /\ Acquire(p, [e.conn EXCEPT !.pool = e.pool, !.held = e.held])
           /\ res' = [res EXCEPT ![p] = [exc |-> e.exc, scalar |-> 0]]
           /\ loc' = [loc EXCEPT ![p].emitted = (e.exc = NoExc)]
           /\ Finish(p, e.exc, FALSE, <<>>)
    /\ UNCHANGED <<server, metadata, pids, opn>>

----------------------------------------------------------------------------
(* Process identity *)

\* if self._pid != os.getpid(): self.engine.dispose(); self._pid = os.getpid()
just_after_fork_effect(h, cur, pl) ==
    IF h # cur THEN [hpid |-> cur, pool |-> <<>>]
    ELSE [hpid |-> h, pool |-> pl]

just_after_fork(p) ==
    /\ pc[p] = "idle"
    /\ LET e == just_after_fork_effect(hpid[p], curpid[p], pool[p]) IN
        /\ hpid' = [hpid EXCEPT ![p] = e.hpid]
        /\ pool' = [pool EXCEPT ![p] = e.pool]
    /\ synced' = [synced EXCEPT ![p] = TRUE]
    /\ opn' = [opn EXCEPT ![p] = "just_after_fork"]
    /\ loc' = [loc EXCEPT ![p] = DefaultLoc]
    /\ out' = [out EXCEPT ![p] = NoOut]
    /\ res' = [res EXCEPT ![p] = NoRes]
    /\ UNCHANGED <<server, metadata, curpid, held, pc, acq>>

\* os.fork() between two operations; the model follows the child, which
\* inherits the handle, pool included, under a new process id
fork(p) ==
    /\ pc[p] = "idle"
    /\ LET fresh == 1 + CHOOSE m \in {curpid[q] : q \in Procs} :
                            \A q \in Procs : curpid[q] <= m
       IN  /\ fresh <= MaxPid
           /\ curpid' = [curpid EXCEPT ![p] = fresh]
    /\ synced' = [synced EXCEPT ![p] = FALSE]
    /\ UNCHANGED <<server, metadata, hpid, pool, held, pc, opn, loc, res, out,
                   acq>>

\* the server goes down, or comes back
server_toggle ==
    /\ up' = ~up
    /\ UNCHANGED <<dbs, ncreate, nmade, metadata, pids, pool, held, pc, opn,
                   loc, res, out, acq>>

----------------------------------------------------------------------------
(* Specifications *)

Timeouts == 1..MaxTimeout
\* a negative step leaves range(0, timeout, period) empty
Periods == {-1} \cup (1..MaxPeriod)
Latencies == 0..MaxLatency
ViewLists == UNION {[1..k -> ViewNames] : k \in 0..MaxViews}

InitWith(ups, dbsets, metas) ==
    /\ up \in ups
    /\ dbs \in dbsets
    /\ ncreate = [n \in DBNames |-> 0]
    /\ nmade = [n \in DBNames |-> 0]
    /\ metadata \in {[p \in Procs |-> m] : m \in metas}
    /\ hpid = [p \in Procs |-> p]
    /\ curpid = [p \in Procs |-> p]
    /\ pool = [p \in Procs |-> <<>>]
    /\ held = [p \in Procs |-> <<>>]
    /\ pc = [p \in Procs |-> "idle"]
    /\ opn = [p \in Procs |-> "none"]
    /\ loc = [p \in Procs |-> DefaultLoc]
    /\ res = [p \in Procs |-> NoRes]
    /\ out = [p \in Procs |-> NoOut]
    /\ acq = [p \in Procs |-> NoAcq]
    /\ synced = [p \in Procs |-> TRUE]

\* the steps of self.execute, shared by the operations that call it
ExecuteSteps(p) ==
    \/ execute_connect(p)
    \/ execute_stmt(p)

WaitOps(p, timeouts, periods) ==
    \/ \E t \in timeouts, per \in periods : wait_until_server_ready(p, t, per)
    \/ \E d \in Latencies : wait_attempt(p, d)
    \/ wait_tail(p)

DatabaseOps(p, names) ==
    \/ \E n \in names : exists(p, n)
    \/ exists_return(p)
    \/ \E n \in names : create_database(p, n)
    \/ create_database_check(p)
    \/ create_database_connect(p)
    \/ create_database_return(p)

RefreshOps(p, lists) ==
    \/ \E l \in lists, c \in BOOLEAN : refresh_materialized_views(p, l, c)
    \/ refresh_next(p)

StatementOps(p) ==
    \/ \E s \in Statements : execute(p, s)
    \/ execute_return(p)
    \/ \E f \in Paths : execute_script(p, f)
    \/ execute_script_connect(p)
    \/ execute_script_commit(p)
    \/ execute_script_body(p)

SchemaOps(p) ==
    \/ create_all_schemas(p)
    \/ \E s \in {"serial", "public", "app"} : create_all_schemas_step(p, s)
    \/ \E g \in IgnorePatterns : create_all_tables(p, g)
    \/ create_all_tables_ddl(p)

\* One handle used by one process, every operation, a server that comes
\* and goes, one database name.
Init == InitWith(BOOLEAN, {{}, {"x"}}, {AllTables})

Next ==
    \/ ExecuteSteps(1)
    \/ StatementOps(1)
    \/ WaitOps(1, Timeouts, Periods)
    \/ DatabaseOps(1, {"x"})
    \/ RefreshOps(1, ViewLists)
    \/ SchemaOps(1)
    \/ server_toggle

Spec == Init /\ [][Next]_vars

\* The same handle across forks between operations; the operations take
\* their smallest inputs.
InitFork == InitWith(BOOLEAN, {{}}, {AllTables})

NextFork ==
    \/ ExecuteSteps(1)
    \/ StatementOps(1)
    \/ WaitOps(1, {1}, {-1, 1})
    \/ DatabaseOps(1, {"x"})
    \/ RefreshOps(1, {<<>>, <<"v1">>})
    \/ SchemaOps(1)
    \/ just_after_fork(1)
    \/ fork(1)
    \/ server_toggle

SpecFork == InitFork /\ [][NextFork]_vars

\* One process that checks for and creates databases on a reachable server.
InitSeq == InitWith({TRUE}, SUBSET DBNames, {AllTables})

NextSeq ==
    \/ ExecuteSteps(1)
    \/ DatabaseOps(1, DBNames)

SpecSeq == InitSeq /\ [][NextSeq]_vars

\* Two processes, each with its own handle, that create databases on the
\* same reachable server, none of which exists at the start.
InitRace == InitWith({TRUE}, {{}}, {AllTables})

NextRace ==
    \E p \in Procs :
        \/ ExecuteSteps(p)
        \/ DatabaseOps(p, DBNames)

SpecRace == InitRace /\ [][NextRace]_vars

\* Any schema description, the schema and table creation of both modules,
\* a reachable server.
InitTables == InitWith({TRUE}, {{}}, SUBSET AllTables)

NextTables ==
    \/ SchemaOps(1)
    \/ interfaces_create_all_tables(1)

SpecTables == InitTables /\ [][NextTables]_vars

\* wait_until_server_ready against a server that never answers.  The
\* process runs its code to the end: every enabled step is taken.
InitWaitFail == InitWith({FALSE}, {{}}, {AllTables})

NextWaitFail ==
    \/ execute_connect(1)
    \/ WaitOps(1, Timeouts, 1..MaxPeriod)

SpecWaitFail == InitWaitFail /\ [][NextWaitFail]_vars /\ WF_vars(NextWaitFail)

----------------------------------------------------------------------------
(* Properties *)

\* process p has finished a call of the operation
Finished(p, name) == pc[p] = "idle" /\ opn[p] = name

\* a call of wait_until_server_ready with positive timeout and period that
\* returned
WaitReturned(p) ==
    /\ Finished(p, "wait_until_server_ready")
    /\ out[p].raised = NoExc
    /\ loc[p].timeout > 0
    /\ loc[p].period > 0

\* C1 as stated: wait_until_server_ready never returns before timeout
\* seconds have elapsed since the call began, also when a readiness query
\* succeeds.
C1_NeverReturnsBeforeTimeout ==
    \A p \in Procs : WaitReturned(p) => loc[p].elapsed >= loc[p].timeout

\* C1 amended: wait_until_server_ready returns before timeout seconds have
\* elapsed only when a readiness query succeeded, and then it returns at
\* once: having slept one period per failed attempt before it and nothing
\* after it.  When no query succeeds it returns no earlier than timeout.
C1_ReturnsEarlyOnlyWhenReady ==
    \A p \in Procs :
        WaitReturned(p) =>
            IF loc[p].ready
            THEN loc[p].slept = (loc[p].i - 1) * loc[p].period
            ELSE loc[p].elapsed >= loc[p].timeout

\* a query succeeded on a later attempt and the call returned early
C1_Witness ==
    /\ WaitReturned(1)
    /\ loc[1].ready
    /\ loc[1].i >= 2
    /\ loc[1].elapsed < loc[1].timeout

\* ceil(a / b) for positive a, b
CeilDiv(a, b) == IF a % b = 0 THEN a \div b ELSE (a \div b) + 1

\* a call of wait_until_server_ready is under way
Waiting(p) == opn[p] = "wait_until_server_ready" /\ pc[p] # "idle"

\* C3: against a server whose every readiness query fails with a
\* connection-level error, wait_until_server_ready with timeout > 0 and
\* period > 0 terminates, returns normally, and has then attempted the
\* query exactly ceil(timeout / period) times.
C3_ReturnsAfterCeilAttempts ==
    /\ [](Finished(1, "wait_until_server_ready") =>
            /\ out[1].raised = NoExc
            /\ ~loc[1].ready
            /\ loc[1].i = CeilDiv(loc[1].timeout, loc[1].period))
    /\ [](Waiting(1) => loc[1].i <= CeilDiv(loc[1].timeout, loc[1].period))
    /\ (Waiting(1) ~> Finished(1, "wait_until_server_ready"))

\* timeout=6, period=2: returned after three failed attempts
C3_Witness ==
    /\ Finished(1, "wait_until_server_ready")
    /\ out[1].raised = NoExc
    /\ loc[1].timeout = 6
    /\ loc[1].period = 2
    /\ loc[1].i = 3
    /\ res[1].exc = OperationalError

\* C4 as stated: for every timeout > 0 and period > 0 the time slept by a
\* call of wait_until_server_ready never exceeds timeout.
C4_SleepsAtMostTimeout ==
    \A p \in Procs :
        (opn[p] = "wait_until_server_ready" /\ loc[p].period > 0)
            => loc[p].slept <= loc[p].timeout

\* C2: after the process identifier has changed, no operation acquires a
\* connection from the pool while the recorded identifier differs from the
\* current one.
C2_NeverAcquiresWhileStale ==
    \A p \in Procs : acq[p].n = 1 => acq[p].rec = acq[p].cur

\* what just_after_fork does when it is called: the new identifier is
\* recorded and the pool holds no connection of another process, so a
\* connection acquired from then until the next fork was opened by the
\* current process
JustAfterForkDisposes ==
    \A p \in Procs :
        /\ synced[p] =>
              /\ hpid[p] = curpid[p]
              /\ \A k \in 1..Len(pool[p]) : pool[p][k] = curpid[p]
        /\ (acq[p].n = 1 /\ acq[p].after) =>
              /\ acq[p].rec = acq[p].cur
              /\ acq[p].conn = acq[p].cur

\* str.endswith('_view')
IsViewName(name) == EndsWith(name, <<"_", "v", "i", "e", "w">>)

\* C5: create_all_tables with the default pattern '*_view' hands to the DDL
\* emission exactly the tables whose name does not end in '_view', for
\* every schema description.
C5_DefaultPatternSkipsViews ==
    \A p \in Procs :
        (Finished(p, "create_all_tables") /\ loc[p].ignore = p_star_view) =>
            /\ out[p].raised = NoExc
            /\ loc[p].emitted
            /\ loc[p].passed = {t \in metadata[p] : ~IsViewName(t.name)}

\* C6: one process, a reachable server.  A create_database call that finds
\* the database issues no creation statement; one that does not find it
\* issues one, which creates it; so no name ever receives a second
\* CREATE DATABASE and no call raises.
C6_SecondCallIsNoOp ==
    /\ \A n \in DBNames : ncreate[n] <= 1
    /\ Finished(1, "create_database") =>
          /\ out[1].raised = NoExc
          /\ loc[1].name \in dbs
          /\ loc[1].phase \in {"exists", "create"}
          /\ loc[1].phase = "create" =>
                ncreate[loc[1].name] = 1 /\ nmade[loc[1].name] = 1
          /\ loc[1].phase = "exists" => res[1].scalar = 1
    /\ (opn[1] = "create_database" /\ pc[1] \in {"cd_connect", "ex_stmt"}
            /\ loc[1].phase # "exists") =>
          ncreate[loc[1].name] = 0

\* the second call: the database was created by an earlier call, and this
\* call returned without a creation statement
C6_Witness ==
    /\ Finished(1, "create_database")
    /\ loc[1].phase = "exists"
    /\ ncreate[loc[1].name] = 1
    /\ out[1].raised = NoExc

\* both processes have finished create_database(n) having found n absent
BothCreated(p, q, n) ==
    /\ Finished(p, "create_database") /\ Finished(q, "create_database")
    /\ loc[p].name = n /\ loc[q].name = n
    /\ loc[p].phase = "create" /\ loc[q].phase = "create"

\* C7: two processes, a reachable server, no database at the start.  When
\* both calls for a name find it absent, one creation succeeds and the
\* other call raises the database error of its creation statement; in
\* every interleaving a finished call leaves the database created once.
C7_RaceCreatesOnce ==
    /\ \A n \in DBNames : nmade[n] <= 1
    /\ \A p \in Procs :
          Finished(p, "create_database") =>
              /\ loc[p].name \in dbs
              /\ nmade[loc[p].name] = 1
              /\ out[p].raised \in {NoExc, ProgrammingError}
              /\ out[p].raised = res[p].exc
              /\ out[p].raised = ProgrammingError => loc[p].phase = "create"
    /\ \A p, q \in Procs, n \in DBNames :
          (p # q /\ BothCreated(p, q, n)) =>
              {out[p].raised, out[q].raised} = {NoExc, ProgrammingError}

\* the race: both existence checks answered false, then both creation
\* statements ran
C7_Witness ==
    /\ BothCreated(1, 2, "x")
    /\ ncreate["x"] = 2
    /\ out[2].raised = ProgrammingError

\* s is a prefix of t
IsPrefix(s, t) == Len(s) <= Len(t) /\ s = SubSeq(t, 1, Len(s))

\* C8: refresh_materialized_views issues one statement per view, one at a
\* time and in the given order, so the views attempted are a prefix of
\* mviews.  On return the prefix is the whole list and the list is
\* returned.  A failed refresh ends the call: the statement that failed is
\* the last one issued, and a later view is attempted only after the one
\* before it succeeded.
C8_RefreshesPrefixInOrder ==
    \A p \in Procs :
        opn[p] = "refresh_materialized_views" =>
            /\ IsPrefix(loc[p].seen, loc[p].mviews)
            /\ Len(loc[p].seen) = loc[p].i
            /\ loc[p].i > 0 =>
                  loc[p].stmt = refresh_stmt(loc[p].mviews[loc[p].i],
                                             loc[p].conc)
            /\ (pc[p] \in {"ex_connect", "ex_stmt"} /\ loc[p].i > 1) =>
                  res[p].exc = NoExc
            /\ (pc[p] = "idle" /\ out[p].raised = NoExc) =>
                  /\ loc[p].seen = loc[p].mviews
                  /\ out[p].retList = loc[p].mviews
                  /\ res[p].exc = NoExc
            /\ (pc[p] = "idle" /\ out[p].raised # NoExc) =>
                  /\ res[p].exc = out[p].raised
                  /\ loc[p].seen # <<>>

\* the refresh of the first of two views failed; the second was not tried
C8_Witness ==
    /\ Finished(1, "refresh_materialized_views")
    /\ out[1].raised = ProgrammingError
    /\ Len(loc[1].mviews) = 2
    /\ loc[1].seen = <<"nx">>

RaisingOps ==
    {"execute", "execute_script", "create_all_schemas",
     "refresh_materialized_views", "create_database"}

\* C9: a connection-level operational error is caught by exists, which
\* returns false, and by wait_until_server_ready, which sleeps and goes on
\* to the next attempt; execute, execute_script, create_all_schemas,
\* refresh_materialized_views and the creation branch of create_database
\* raise it.  create_database never takes a failed existence check for
\* 'exists': it goes on to create, and raises if the server is unreachable.
C9_OperationalErrorCaughtInTwoPlaces ==
    \A p \in Procs :
        /\ Finished(p, "exists") =>
              /\ out[p].raised = NoExc
              /\ res[p].exc = OperationalError => ~out[p].retBool
        /\ Finished(p, "wait_until_server_ready") =>
              out[p].raised = NoExc
        /\ (opn[p] = "wait_until_server_ready" /\ loc[p].i > 1
                /\ pc[p] \in {"ex_connect", "ex_stmt"}) =>
              /\ res[p].exc = OperationalError
              /\ loc[p].slept = (loc[p].i - 1) * loc[p].period
        /\ (pc[p] = "idle" /\ opn[p] \in RaisingOps
                /\ res[p].exc = OperationalError) =>
              /\ out[p].raised = OperationalError
              /\ opn[p] = "create_database" =>
                    loc[p].phase \in {"absent", "create"}
        /\ (Finished(p, "create_database") /\ loc[p].phase = "exists") =>
              res[p].exc # OperationalError

\* create_database against an unreachable server: the existence check
\* failed, the creation was attempted and the call raised
C9_Witness ==
    /\ Finished(1, "create_database")
    /\ out[1].raised = OperationalError
    /\ loc[1].phase = "absent"
    /\ ~up
    /\ loc[1].name \notin dbs

CheckedOutOps ==
    {"execute", "execute_script", "exists", "refresh_materialized_views",
     "wait_until_server_ready", "create_database"}

\* C10: when an operation has finished, by return or by an exception, no
\* connection it acquired is still checked out of the pool.
C10_ConnectionsReturned ==
    \A p \in Procs :
        (pc[p] = "idle" /\ opn[p] \in CheckedOutOps) => Len(held[p]) = 0

\* create_database held two connections and ended with an exception
C10_Witness ==
    /\ Finished(1, "create_database")
    /\ loc[1].phase = "create"
    /\ out[1].raised # NoExc
    /\ Len(held[1]) = 0
====
